---- MODULE Spec2Model ----
(***************************************************************************)
(* A state-machine model of src/index.js: the EventEmitter class           *)
(* (listener registry with its allow-list and overflow warning,            *)
(* registration and removal with the newListener and removeListener        *)
(* events, synchronous dispatch `emit`, promise-aware dispatch `emit2`)    *)
(* and the module-level function `handleError`.                            *)
(*                                                                         *)
(* JavaScript runs to completion on one thread, so the model keeps an      *)
(* explicit call stack.  A method call pushes a frame; a listener that is  *)
(* being executed is a "call" frame, and while it is the top frame the     *)
(* listener body may itself call the emitter's methods (re-entrancy).      *)
(* Promise continuations are microtasks: they run from the `jobs` queue    *)
(* only when the call stack is empty.  EventsMap objects have identity:    *)
(* `_events` refers to the one installed, and a method under way keeps the *)
(* array it read at its first line even after events(map) installed        *)
(* another map.                                                            *)
(*                                                                         *)
(* Array indices are 1-based here (JavaScript index k is k + 1).           *)
(***************************************************************************)
EXTENDS Integers, Sequences, FiniteSets, TLC

VARIABLES
    _events,        \* EventEmitter#_events: the EventsMap object installed (its identity)
    maps,           \* the EventsMap objects: insertion-ordered keys and a listener array per key
    _maxListeners,  \* EventEmitter#_maxListeners
    _validEvents,   \* EventEmitter#_validEvents (the allow-list; empty = unrestricted)
    _warnings,      \* EventEmitter#_warnings
    process,        \* the warnings handed to process.emitWarning, in order
    heap,           \* the listener objects {callback, count}, by identity
    stack,          \* the JavaScript call stack of emitter methods and listeners
    promises,       \* the promises returned by asynchronous listeners
    handles,        \* the promises returned by emit2
    jobs,           \* the microtask queue of promise reactions
    done,           \* what the top-level call that just ended returned or threw
    calls           \* how many calls user code may still make: in all, and from inside listeners

vars == <<_events, maps, _maxListeners, _validEvents, _warnings, process, heap, stack,
          promises, handles, jobs, done, calls>>

----------------------------------------------------------------------------
(* Bounds of the model.                                                    *)

MaxRecords == 3
MaxCalls == 5
MaxNested == 2
MaxPromises == 2
MaxHandles == 1
MaxAsyncCalls == 4
MaxAllowCalls == 3
MaxAllowNested == 1
MaxWarnCalls == 5
MaxNotifyCalls == 4
MaxNotifyNested == 1
MaxResetCalls == 4
MaxResetNested == 1
MaxExpiryCalls == 4
MaxExpiryNested == 1
MaxMaps == 3
MaxEventsCalls == 4
MaxEventsNested == 1

----------------------------------------------------------------------------
(* Values.                                                                 *)

\* `Infinity` of JavaScript, the count of an unlimited listener: Infinity - 1 = Infinity.
Infinity == 1000000

EventNames == {"message", "newListener", "removeListener", "exit"}

\* Listener functions.  Each has a fixed way of completing; what a body does
\* before completing (calls back into the emitter) is chosen by the environment.
\*   "ret"   returns its own value          "throw" throws its own error
\*   "async" returns a promise that later fulfils with its value or rejects
\*           with its error (an async function)
Callbacks == {"A", "B", "T", "P", "Q"}
Completes(cb) ==
    CASE cb \in {"A", "B"} -> "ret"
      [] cb = "T"          -> "throw"
      [] OTHER             -> "async"

\* A JavaScript value: its kind, the listener it stems from, and for a promise its identity.
Undefined == [k |-> "undefined", of |-> "", id |-> 0]
Val(cb)   == [k |-> "value", of |-> cb, id |-> 0]     \* what listener cb returns / resolves to
Err(cb)   == [k |-> "error", of |-> cb, id |-> 0]     \* what listener cb throws / rejects with
Handled(error) == [k |-> "handled", of |-> error.of, id |-> 0]  \* what an onError function returns for error
PromiseOf(p)   == [k |-> "promise", of |-> promises[p].cb, id |-> p]
Hole      == [k |-> "hole", of |-> "", id |-> 0]      \* an empty slot of a sparse array
InvalidEventName == [k |-> "EventEmitterError", of |-> "Invalid event name", id |-> 0]
InvalidFunction  == [k |-> "EventEmitterError", of |-> "Invalid function", id |-> 0]
InvalidEvents    == [k |-> "EventEmitterError", of |-> "Invalid events object", id |-> 0]
Fn(cb)    == [k |-> "function", of |-> cb, id |-> 0]  \* the listener function cb itself
This      == [k |-> "this", of |-> "", id |-> 0]      \* the emitter, returned for chaining

IsPromise(v) == v.k = "promise"

\* The onError argument of emit/emit2:
\*   "undefined" throw errors, "null" ignore errors, "false" errors are results,
\*   "fn" a function returning a value, "fnUndefined" a function returning undefined.
Directives == {"undefined", "null", "false", "fn", "fnUndefined"}
onErrorCall(onError, error) ==
    IF onError = "fn" THEN Handled(error) ELSE Undefined

----------------------------------------------------------------------------
(* Sequence helpers (Array.prototype methods used by the source).          *)

\* array.splice(index, 1): removes nothing when index is past the end.
Splice(s, index) ==
    IF index < 1 \/ index > Len(s) THEN s
    ELSE SubSeq(s, 1, index - 1) \o SubSeq(s, index + 1, Len(s))

\* array[index] = value: an index past the end grows the array, leaving holes.
SetAt(s, index, value) ==
    IF index <= Len(s) THEN [s EXCEPT ![index] = value]
    ELSE s \o [j \in 1..(index - Len(s)) |-> IF j = index - Len(s) THEN value ELSE Hole]

\* array.indexOf(x) / array.findIndex(pred): the first index, 0 when there is none.
RECURSIVE IndexFrom(_, _, _)
IndexFrom(s, x, from) ==
    IF from > Len(s) THEN 0
    ELSE IF s[from] = x THEN from
    ELSE IndexFrom(s, x, from + 1)
IndexOf(s, x) == IndexFrom(s, x, 1)

Range(s) == {s[j] : j \in 1..Len(s)}

Top(stk) == stk[Len(stk)]
Pop(stk) == SubSeq(stk, 1, Len(stk) - 1)
SetTop(stk, f) == [stk EXCEPT ![Len(stk)] = f]

----------------------------------------------------------------------------
(* The registry.                                                           *)

\* A variant without the allow-list check.
ValidEventAny(event) ==
    TRUE

\* listeners(event), line 222: the allow-list check.
ValidEvent(event) ==
    Len(_validEvents) = 0 \/ event \in Range(_validEvents)

\* new EventsMap(): no key.  `lists[event]` is the array stored under the key
\* `event`; it is empty for an event that is no key.
EmptyMap == [keys |-> <<>>, lists |-> [e \in EventNames |-> <<>>]]

\* listeners(event), lines 224-227: the array the installed map stores for
\* the event ...
listeners(event) == maps[_events].lists[event]

\* ... which is created and stored on the first read (ms: the EventsMap objects).
Touch(ms, event) ==
    IF event \in Range(ms[_events].keys) THEN ms
    ELSE [ms EXCEPT ![_events].keys = Append(@, event)]

\* The array that the EventsMap object m stores for an event.  The emitter
\* never replaces an array of a map, so the map and the key identify it.
ArrayAt(ms, m, event) == ms[m].lists[event]

\* The array `listeners` that a method under way read at its first line.
Live(ms, frame) == ArrayAt(ms, frame.map, frame.event)

\* splice / push / unshift on such an array.
SetList(ms, m, event, list) == [ms EXCEPT ![m].lists[event] = list]

\* --listener.count
Decrement(count) == IF count = Infinity THEN Infinity ELSE count - 1

\* options?.count ?? Infinity
CountOf(options) == IF options.hasCount THEN options.count ELSE Infinity

\* listeners.findIndex(x => x.callback === listener)
RECURSIVE FindFrom(_, _, _)
FindFrom(list, cb, from) ==
    IF from > Len(list) THEN 0
    ELSE IF heap[list[from]].callback = cb THEN from
    ELSE FindFrom(list, cb, from + 1)
\* A variant that finds the last such index (findLastIndex).
RECURSIVE FindBack(_, _, _)
FindBack(list, cb, from) ==
    IF from < 1 THEN 0
    ELSE IF heap[list[from]].callback = cb THEN from
    ELSE FindBack(list, cb, from - 1)
findLastIndex(list, cb) == FindBack(list, cb, Len(list))

findIndex(list, cb) == FindFrom(list, cb, 1)

----------------------------------------------------------------------------
(* handleError(results, error, onError, index), lines 6-24.  NoIndex is    *)
(* the absent index argument.  The result says whether the error was       *)
(* thrown again and what the results array holds afterwards.               *)

NoIndex == 0

\* A variant that puts an unindexed value first (unshift for push).
setvalFront(results, value, index) ==
    IF index = NoIndex THEN <<value>> \o results
    ELSE SetAt(results, index, value)

setval(results, value, index) ==
    IF index = NoIndex THEN Append(results, value)
    ELSE SetAt(results, index, value)

\* A variant without the `throw error` of line 14: an unset directive ignores errors.
handleErrorSwallow(results, error, onError, index) ==
    IF onError = "false" THEN [threw |-> FALSE, results |-> setval(results, error, index)]
    ELSE IF onError \notin {"undefined", "null"} /\ onErrorCall(onError, error) # Undefined
         THEN [threw |-> FALSE, results |-> setval(results, onErrorCall(onError, error), index)]
    ELSE IF index # NoIndex THEN [threw |-> FALSE, results |-> Splice(results, index)]
    ELSE [threw |-> FALSE, results |-> results]

handleError(results, error, onError, index) ==
    IF onError = "undefined" THEN [threw |-> TRUE, results |-> results]
    ELSE IF onError = "false" THEN [threw |-> FALSE, results |-> setval(results, error, index)]
    ELSE IF onError # "null" /\ onErrorCall(onError, error) # Undefined
         THEN [threw |-> FALSE, results |-> setval(results, onErrorCall(onError, error), index)]
    ELSE IF index # NoIndex THEN [threw |-> FALSE, results |-> Splice(results, index)]
    ELSE [threw |-> FALSE, results |-> results]

----------------------------------------------------------------------------
(* Call-stack frames.                                                      *)

\* emit(event, args, onError) after line 170.  `snap` is listeners.slice() of
\* line 171, `i` the position of the for-of loop in it, `results` is
\* data.results.  `invoked` and `outs` record, for the properties, which
\* listener objects the loop invoked (and whether each was still registered
\* when its turn came) and how each invocation completed.
EmitFrame(event, args, onError, snapshot) ==
    [op |-> "emit", event |-> event, map |-> _events, args |-> args, onError |-> onError,
     snap |-> snapshot, i |-> 1, results |-> <<>>, invoked |-> <<>>, outs |-> <<>>]

\* listener.callback.call(data, ...args) of line 177, for listener object rec.
CallFrame(rec) ==
    [op |-> "call", rec |-> rec, cb |-> heap[rec].callback]

\* addListener(event, list, options) inside its forEach, at element i.
AddFrame(event, list, options) ==
    [op |-> "addListener", event |-> event, map |-> _events, list |-> list,
     options |-> options, i |-> 1]

\* The array iterated is the copy or the caller's own array `list`.
NoLive == [k |-> "undefined", of |-> "", id |-> 0]

\* removeListener(event, ...) inside its forEach, at index i of the array it
\* iterates: `list` (a copy made at line 122, or the array of the caller),
\* or, when `live` is an array of the registry, that array as it stands at
\* each turn.  `len` is the length forEach read when it began, `listener`
\* the function of the turn last taken, and `removed` counts the splices
\* the call has made.
RemoveFrame(event, list, live, len) ==
    [op |-> "removeListener", event |-> event, map |-> _events, list |-> list,
     live |-> live, len |-> len, i |-> 1, removed |-> 0,
     listener |-> [k |-> "undefined", of |-> "", id |-> 0]]

\* emit2(event, args, onError): line 191 is under way until `returned`, when
\* `results` holds what emit returned and `emitted` the emit frame as it ended.
Emit2Frame(event, onError) ==
    [op |-> "emit2", event |-> event, onError |-> onError, returned |-> FALSE,
     results |-> Undefined, emitted |-> [op |-> "none"]]

\* A call that line 222 refused on entry.
Refused(method, event) == [op |-> "refused", method |-> method, event |-> event]

\* What a completed top-level call gave its caller; it is kept until the next
\* call is made.
NoCall == [call |-> [op |-> "none"], kind |-> "none", value |-> [k |-> "undefined", of |-> "", id |-> 0]]
Returned(frame, value) == [call |-> frame, kind |-> "return", value |-> value]
Thrown(frame, error)   == [call |-> frame, kind |-> "throw", value |-> error]

\* An array as a JavaScript value.
Array(items) == [k |-> "array", items |-> items]

----------------------------------------------------------------------------
(* Exceptions.  A thrown error leaves the frames it passes, in one step.   *)
(* A listener body does not catch what a call it makes throws, so the      *)
(* listener throws it in turn; that lands in the catch of line 178, where  *)
(* handleError either rethrows (the emit frame is left too) or records the *)
(* error and lets the loop go on.  addListener, removeListener and emit2   *)
(* catch nothing.                                                          *)

RECURSIVE Unwind(_, _)
Unwind(stk, error) ==
    LET f == Top(stk)
        rest == Pop(stk)
    IN  IF f.op = "call"
        THEN LET g == Top(rest)
                 h == handleError(g.results, error, g.onError, NoIndex)
                 g2 == [g EXCEPT !.results = h.results,
                                 !.outs = Append(@, [kind |-> "throw", value |-> error]),
                                 !.i = @ + 1]
                 below == Pop(rest)
             IN  IF ~h.threw THEN [stack |-> Append(below, g2), thrown |-> FALSE, bottom |-> g2]
                 ELSE IF below = <<>> THEN [stack |-> <<>>, thrown |-> TRUE, bottom |-> g2]
                 ELSE Unwind(below, error)
        ELSE IF rest = <<>> THEN [stack |-> <<>>, thrown |-> TRUE, bottom |-> f]
        ELSE Unwind(rest, error)

\* `throw error` with the frames stk on the stack; `frame` describes the call
\* when it is the top-level call itself that throws on entry.
Raise(stk, error, frame) ==
    IF stk = <<>>
    THEN /\ stack' = <<>>
         /\ done' = Thrown(frame, error)
    ELSE LET u == Unwind(stk, error)
         IN  /\ stack' = u.stack
             /\ done' = IF u.thrown THEN Thrown(u.bottom, error) ELSE NoCall

\* `return value` of the frame on top of the stack, to its caller.
Return(frame, value) ==
    /\ stack' = Pop(stack)
    /\ done' = IF Len(stack) = 1 THEN Returned(frame, value) ELSE NoCall

----------------------------------------------------------------------------
(* Who may call.  User code runs at the top level (no method of the        *)
(* emitter is on the stack; promise reactions may be waiting in the queue) *)
(* or inside a listener that is being executed.                            *)

AtTopLevel == stack = <<>>
InListener == stack # <<>> /\ Top(stack).op = "call"

CanCall ==
    IF stack = <<>> THEN calls.all > 0
    ELSE Top(stack).op = "call" /\ calls.all > 0 /\ calls.nested > 0

Called ==
    IF stack = <<>> THEN [calls EXCEPT !.all = @ - 1]
    ELSE [calls EXCEPT !.all = @ - 1, !.nested = @ - 1]

\* Promises that the emit loops under way will still be handed by async listeners.
RECURSIVE Due(_, _)
Due(snapshot, from) ==
    IF from > Len(snapshot) THEN 0
    ELSE (IF Completes(heap[snapshot[from]].callback) = "async" THEN 1 ELSE 0)
         + Due(snapshot, from + 1)

RECURSIVE PromisesDue(_)
PromisesDue(stk) ==
    IF stk = <<>> THEN 0
    ELSE (IF Top(stk).op = "emit" THEN Due(Top(stk).snap, Top(stk).i) ELSE 0)
         + PromisesDue(Pop(stk))

\* Listener objects that addListener calls which are under way will still create.
RECURSIVE Pending(_)
Pending(stk) ==
    IF stk = <<>> THEN 0
    ELSE (IF Top(stk).op = "addListener" THEN Len(Top(stk).list) - Top(stk).i + 1 ELSE 0)
         + Pending(Pop(stk))

----------------------------------------------------------------------------
(* emit(event, args, onError), lines 165-183.                              *)

\* Lines 168-169: a non-array argument is wrapped, an absent one is the empty list.
ArgList(args) ==
    IF args.k = "array" THEN args.items
    ELSE IF args.k = "undefined" THEN <<>>
    ELSE <<args>>

\* Lines 167-171 with the EventsMap objects as they are in ms: the frame with
\* which the loop starts.
EnterEmit(ms, event, args, onError) ==
    EmitFrame(event, ArgList(args), onError, ArrayAt(ms, _events, event))

\* The call: line 167 throws for a name off the allow-list, else the loop is entered.
emit(event, args, onError) ==
    /\ CanCall
    /\ Len(promises) + PromisesDue(stack) + Due(listeners(event), 1) <= MaxPromises
    /\ calls' = Called
    /\ IF ~ValidEvent(event)
       THEN /\ Raise(stack, InvalidEventName, Refused("emit", event))
            /\ UNCHANGED maps
       ELSE /\ maps' = Touch(maps, event)
            /\ stack' = Append(stack, EnterEmit(maps, event, args, onError))
            /\ done' = NoCall
    /\ UNCHANGED <<_events, _maxListeners, _validEvents, process, _warnings, heap, promises,
                   handles, jobs>>

\* A variant without the slice(): the loop iterates the live array.
IteratedLive(frame) == Live(maps, frame)

\* What the for-of loop of line 171 iterates: the copy made when the call began.
Iterated(frame) == frame.snap

\* A variant that emits removeListener for a listener object it takes out,
\* in place of the call of the listener.
emit_forNotifies ==
    /\ stack # <<>>
    /\ Top(stack).op = "emit"
    /\ Top(stack).i <= Len(Iterated(Top(stack)))
    /\ LET f == Top(stack)
           listener == Iterated(f)[f.i]
           count == Decrement(heap[listener].count)
           index == IndexOf(Live(maps, f), listener)
           ms == SetList(maps, f.map, f.event, Splice(Live(maps, f), index))
       IN  /\ heap' = [heap EXCEPT ![listener].count = count, ![listener].calls = @ + 1]
           /\ IF count < 1 /\ index # 0
              THEN /\ maps' = Touch(ms, "removeListener")
                   /\ stack' = Append(
                          SetTop(stack, [f EXCEPT !.i = @ + 1]),
                          EnterEmit(ms, "removeListener",
                                    Array(<<f.event, Fn(heap[listener].callback)>>),
                                    "undefined"))
              ELSE /\ maps' = maps
                   /\ stack' = Append(
                          SetTop(stack, [f EXCEPT !.invoked =
                              Append(@, [rec |-> listener, present |-> index # 0])]),
                          CallFrame(listener))
    /\ UNCHANGED <<_events, _maxListeners, _validEvents, process, _warnings, promises,
                   handles, jobs, done, calls>>

\* One turn of the loop, lines 171-177 up to the call of the listener: the
\* count is decremented, an expired object is spliced out of the array read
\* at line 167 if it is still in it, and the callback is entered.
emit_for ==
    /\ stack # <<>>
    /\ Top(stack).op = "emit"
    /\ Top(stack).i <= Len(Iterated(Top(stack)))
    /\ LET f == Top(stack)
           listener == Iterated(f)[f.i]
           count == Decrement(heap[listener].count)
           index == IndexOf(Live(maps, f), listener)
       IN  /\ heap' = [heap EXCEPT ![listener].count = count, ![listener].calls = @ + 1]
           /\ maps' = IF count < 1 /\ index # 0
                      THEN SetList(maps, f.map, f.event, Splice(Live(maps, f), index))
                      ELSE maps
           /\ stack' = Append(
                  SetTop(stack, [f EXCEPT !.invoked =
                      Append(@, [rec |-> listener, present |-> index # 0])]),
                  CallFrame(listener))
    /\ UNCHANGED <<_events, _maxListeners, _validEvents, process, _warnings, promises,
                   handles, jobs, done, calls>>

\* The listener returned `value` (line 177): it is pushed onto data.results.
Pushed(stk, value) ==
    LET g == Top(Pop(stk))
    IN  SetTop(Pop(stk), [g EXCEPT !.results = Append(@, value),
                                  !.outs = Append(@, [kind |-> "return", value |-> value]),
                                  !.i = @ + 1])

\* A synchronous listener returns its value.
listener_return ==
    /\ InListener
    /\ Completes(Top(stack).cb) = "ret"
    /\ stack' = Pushed(stack, Val(Top(stack).cb))
    /\ UNCHANGED <<_events, maps, _maxListeners, _validEvents, process, _warnings, heap, promises,
                   handles, jobs, done, calls>>

\* A variant in which the throw undoes the decrement of line 172.
listener_throwRestores ==
    /\ InListener
    /\ Completes(Top(stack).cb) = "throw"
    /\ Raise(stack, Err(Top(stack).cb), Top(stack))
    /\ heap' = [heap EXCEPT ![Top(stack).rec].count =
                    IF @ = Infinity THEN Infinity ELSE @ + 1]
    /\ UNCHANGED <<_events, maps, _maxListeners, _validEvents, process, _warnings, promises,
                   handles, jobs, calls>>

\* A synchronous listener throws its error (line 178).
listener_throw ==
    /\ InListener
    /\ Completes(Top(stack).cb) = "throw"
    /\ Raise(stack, Err(Top(stack).cb), Top(stack))
    /\ UNCHANGED <<_events, maps, _maxListeners, _validEvents, process, _warnings, heap, promises,
                   handles, jobs, calls>>

\* Line 182: the loop is over, data.results is returned.
emit_return ==
    /\ stack # <<>>
    /\ Top(stack).op = "emit"
    /\ Top(stack).i > Len(Iterated(Top(stack)))
    /\ LET f == Top(stack)
           rest == Pop(stack)
       IN  IF rest # <<>> /\ Top(rest).op = "emit2"
           THEN /\ stack' = SetTop(rest, [Top(rest) EXCEPT !.results = Array(f.results),
                                                            !.emitted = f,
                                                            !.returned = TRUE])
                /\ UNCHANGED done
           ELSE Return(f, Array(f.results))
    /\ UNCHANGED <<_events, maps, _maxListeners, _validEvents, process, _warnings, heap, promises,
                   handles, jobs, calls>>

----------------------------------------------------------------------------
(* addListener(event, listener, options), lines 91-111; on and once.       *)

\* No options argument: options?.prepend and options?.count are undefined.
NoOptions == [hasCount |-> FALSE, count |-> 0, prepend |-> FALSE]

\* listener instanceof Array ? listener : [listener]
AsList(listener) ==
    IF listener.k = "array" THEN listener.items ELSE <<listener>>

\* A variant without line 98: nothing is emitted before the insertion.
NotifyNewSkipped(stk, ms, frame) ==
    IF frame.list[frame.i].k # "function"
    THEN /\ Raise(stk, InvalidFunction, frame)
         /\ maps' = ms
    ELSE /\ stack' = Append(stk, frame)
         /\ maps' = ms
         /\ done' = NoCall

\* Lines 96-98 for list element i, with the EventsMap objects as in ms: the
\* type check, then emit('newListener', [event, listener, options]) is entered.
NotifyNew(stk, ms, frame) ==
    IF frame.list[frame.i].k # "function"
    THEN /\ Raise(stk, InvalidFunction, frame)
         /\ maps' = ms
    ELSE /\ stack' = stk \o <<frame,
                EnterEmit(ms, "newListener",
                          Array(<<frame.event, frame.list[frame.i], frame.options>>),
                          "undefined")>>
         /\ maps' = Touch(ms, "newListener")
         /\ done' = NoCall

\* A variant without the tracker: the warning is given whenever the maximum is exceeded.
WarnsAlways(list, event) ==
    Len(list) > _maxListeners

\* Line 104: whether addListener warns, for the array as it is after the forEach.
Warns(list, event) ==
    Len(list) > _maxListeners /\ event \notin Range(_warnings)

\* Lines 104-109, for the array as it is after the forEach.
Overflow(list, event) ==
    /\ process' = IF Warns(list, event)
                  THEN Append(process, [event |-> event, length |-> Len(list)])
                  ELSE process
    /\ _warnings' = IF Warns(list, event)
                    THEN Append(_warnings, event)
                    ELSE _warnings

\* The call: line 93, then the first turn of the forEach up to its emit.  For
\* an empty list the forEach has no turn: lines 104-110 follow at once.
addListener(event, listener, options) ==
    /\ CanCall
    /\ Len(heap) + Pending(stack) + Len(AsList(listener)) <= MaxRecords
    /\ calls' = Called
    /\ IF ~ValidEvent(event)
       THEN /\ Raise(stack, InvalidEventName, Refused("addListener", event))
            /\ UNCHANGED <<maps, process, _warnings>>
       ELSE IF Len(AsList(listener)) = 0
       THEN /\ maps' = Touch(maps, event)
            /\ Overflow(listeners(event), event)
            /\ done' = IF stack = <<>>
                       THEN Returned(AddFrame(event, <<>>, options), This)
                       ELSE NoCall
            /\ UNCHANGED stack
       ELSE /\ NotifyNew(stack, Touch(maps, event), AddFrame(event, AsList(listener), options))
            /\ UNCHANGED <<process, _warnings>>
    /\ UNCHANGED <<_events, _maxListeners, _validEvents, heap, promises, handles, jobs>>

\* Lines 99-102: the new listener object {callback, count}.  The other fields
\* are its history, kept for the properties: the event and the options it was
\* registered with, how often it was invoked, whether removeListener took it out.
NewListener(event, cb, options) ==
    [callback |-> cb, count |-> CountOf(options),
     event |-> event, limit |-> CountOf(options), prepended |-> options.prepend,
     calls |-> 0, spliced |-> FALSE]

\* A variant that always uses unshift.
InsertedFront(list, rec, options) == <<rec>> \o list

\* Lines 99-102: where the new listener object goes in the array.
Inserted(list, rec, options) ==
    IF options.prepend THEN <<rec>> \o list ELSE Append(list, rec)

\* emit('newListener') has returned: lines 99-102 create the listener object
\* and insert it into the array read at line 93; then the forEach goes on to
\* the next element, or is over and lines 104-110 check the length of that
\* array and return.
addListener_push ==
    /\ stack # <<>>
    /\ Top(stack).op = "addListener"
    /\ LET f == Top(stack)
           rec == Len(heap) + 1
           list == Inserted(Live(maps, f), rec, f.options)
           ms == SetList(maps, f.map, f.event, list)
       IN  /\ heap' = Append(heap, NewListener(f.event, f.list[f.i].of, f.options))
           /\ IF f.i < Len(f.list)
              THEN /\ NotifyNew(Pop(stack), ms, [f EXCEPT !.i = @ + 1])
                   /\ UNCHANGED <<_warnings, process>>
              ELSE /\ maps' = ms
                   /\ Overflow(list, f.event)
                   /\ Return(f, This)
    /\ UNCHANGED <<_events, _maxListeners, _validEvents, promises, handles, jobs, calls>>

\* Lines 234-237 and 243-246: {...options, count: Infinity} and {...options, count: 1}.
on(event, listener, options) ==
    addListener(event, listener, [options EXCEPT !.hasCount = TRUE, !.count = Infinity])

once(event, listener, options) ==
    addListener(event, listener, [options EXCEPT !.hasCount = TRUE, !.count = 1])

----------------------------------------------------------------------------
(* removeListener(event, listener), lines 119-136.                         *)

\* A listener object of the registry as a value.
ListenerObject(rec) == [k |-> "listener", of |-> heap[rec].callback, id |-> rec]

\* The array that the EventsMap object m stores for an event, as a value.
LiveListOf(m, event) == [k |-> "listeners", of |-> event, id |-> m]

\* The installed map's own array for an event, as a value.
LiveList(event) == LiveListOf(_events, event)

\* The listener objects of an array, as values.
Objects(list) == [j \in 1..Len(list) |-> ListenerObject(list[j])]

\* listener === listeners of line 122: the argument is the very array that
\* line 121 read.
SameArray(event, listener) ==
    listener.k = "listeners" /\ listener.of = event /\ listener.id = _events

\* Line 122: listener === listeners ? listener.slice()
\*           : listener instanceof Array ? listener : [listener]
\* and the forEach of line 123 begun on it.  Another array of the registry is
\* iterated as it is, not copied.
RemovalList(ms, event, listener) ==
    IF SameArray(event, listener)
    THEN RemoveFrame(event, Objects(ArrayAt(ms, _events, event)), NoLive,
                     Len(ArrayAt(ms, _events, event)))
    ELSE IF listener.k = "listeners"
    THEN RemoveFrame(event, <<>>, listener, Len(ArrayAt(ms, listener.id, listener.of)))
    ELSE RemoveFrame(event, AsList(listener), NoLive, Len(AsList(listener)))

\* removeListener(event, listener) entered with the frames stk below it:
\* lines 121-122.
EnterRemove(stk, ms, event, listener) ==
    IF ~ValidEvent(event)
    THEN /\ Raise(stk, InvalidEventName, Refused("removeListener", event))
         /\ maps' = ms
    ELSE /\ maps' = Touch(ms, event)
         /\ stack' = Append(stk, RemovalList(ms, event, listener))
         /\ done' = NoCall

\* The call.  An array of the registry that is passed was read earlier, by
\* listeners(event) or from the map.
removeListener(event, listener) ==
    /\ CanCall
    /\ listener.k = "listeners" =>
          /\ listener.id \in 1..Len(maps)
          /\ listener.of \in Range(maps[listener.id].keys)
    /\ calls' = Called
    /\ EnterRemove(stack, maps, event, listener)
    /\ UNCHANGED <<_events, _maxListeners, _validEvents, process, _warnings, heap, promises,
                   handles, jobs>>

\* The element at index i of the array the forEach iterates; Hole when the
\* array has no such index any more (forEach passes over it).
Element(ms, frame) ==
    IF frame.live = NoLive THEN frame.list[frame.i]
    ELSE IF frame.i <= Len(ArrayAt(ms, frame.live.id, frame.live.of))
         THEN ListenerObject(ArrayAt(ms, frame.live.id, frame.live.of)[frame.i])
    ELSE Hole

\* A variant that emits before line 131: the observers are those of the
\* registry `before` the splice.
NotifyRemovedEarly(before, after, event, cb) ==
    EnterEmit(before, "removeListener", Array(<<event, Fn(cb)>>), "undefined")

\* Line 132, which follows the splice of line 131: emit('removeListener',
\* [event, listener]) is entered in the registry `after` the splice.
NotifyRemoved(before, after, event, cb) ==
    EnterEmit(after, "removeListener", Array(<<event, Fn(cb)>>), "undefined")

\* One turn of the forEach, lines 124-133: the first listener object with the
\* callback is spliced out of the array read at line 121 and
\* emit('removeListener', [event, listener]) is entered.
removeListener_forEach ==
    /\ stack # <<>>
    /\ Top(stack).op = "removeListener"
    /\ Top(stack).i <= Top(stack).len
    /\ LET f == Top(stack)
           listener == Element(maps, f)
           pos == findIndex(Live(maps, f), listener.of)
           ms == SetList(maps, f.map, f.event, Splice(Live(maps, f), pos))
       IN  IF listener = Hole
           THEN /\ stack' = SetTop(stack, [f EXCEPT !.i = @ + 1])
                /\ UNCHANGED <<maps, heap, done>>
           ELSE IF listener.k \notin {"function", "listener"}
           THEN /\ Raise(stack, InvalidFunction, f)
                /\ UNCHANGED <<maps, heap>>
           ELSE IF pos # 0
           THEN /\ maps' = Touch(ms, "removeListener")
                /\ heap' = [heap EXCEPT ![Live(maps, f)[pos]].spliced = TRUE]
                /\ stack' = Append(
                       SetTop(stack, [f EXCEPT !.i = @ + 1, !.removed = @ + 1,
                                               !.listener = Fn(listener.of)]),
                       NotifyRemoved(maps, ms, f.event, listener.of))
                /\ UNCHANGED done
           ELSE /\ stack' = SetTop(stack, [f EXCEPT !.i = @ + 1,
                                                    !.listener = Fn(listener.of)])
                /\ UNCHANGED <<maps, heap, done>>
    /\ UNCHANGED <<_events, _maxListeners, _validEvents, process, _warnings, promises,
                   handles, jobs, calls>>

\* Line 135: the forEach is over.
removeListener_return ==
    /\ stack # <<>>
    /\ Top(stack).op = "removeListener"
    /\ Top(stack).i > Top(stack).len
    /\ Return(Top(stack), This)
    /\ UNCHANGED <<_events, maps, _maxListeners, _validEvents, process, _warnings, heap,
                   promises, handles, jobs, calls>>

----------------------------------------------------------------------------
(* Asynchronous listeners and emit2(event, args, onError), lines 189-201.  *)
(*                                                                         *)
(* For each promise among the results, line 196 makes a `then` promise     *)
(* whose reaction is line 197 or 198; Promise.all reacts to each `then`    *)
(* promise; and the promise that emit2 returns is the `then` promise of    *)
(* line 200.  Each reaction is a microtask of its own, queued when the     *)
(* promise it is attached to settles (or at once, when it is attached to a *)
(* settled promise).                                                       *)

\* A variant in which the loop meets the rejection of an async listener as a throw.
listener_asyncThrows(state) ==
    /\ InListener
    /\ Completes(Top(stack).cb) = "async"
    /\ IF state = "rejected"
       THEN /\ Raise(stack, Err(Top(stack).cb), Top(stack))
            /\ UNCHANGED promises
       ELSE /\ promises' = Append(promises, [state |-> state, cb |-> Top(stack).cb,
                                             handle |-> 0, index |-> 0])
            /\ stack' = Pushed(stack, [k |-> "promise", of |-> Top(stack).cb,
                                       id |-> Len(promises) + 1])
            /\ done' = NoCall
    /\ UNCHANGED <<_events, maps, _maxListeners, _validEvents, process, _warnings, heap,
                   handles, jobs, calls>>

\* An async listener returns a promise.  The promise is pending, or already
\* settled (an async function that returns or throws without awaiting).
listener_async(state) ==
    /\ InListener
    /\ Completes(Top(stack).cb) = "async"
    /\ promises' = Append(promises, [state |-> state, cb |-> Top(stack).cb,
                                     handle |-> 0, index |-> 0])
    /\ stack' = Pushed(stack, [k |-> "promise", of |-> Top(stack).cb,
                               id |-> Len(promises) + 1])
    /\ UNCHANGED <<_events, maps, _maxListeners, _validEvents, process, _warnings, heap,
                   handles, jobs, done, calls>>

\* The microtasks: the reaction of line 197/198 to promise p; the reaction of
\* Promise.all to the `then` promise of p, which was fulfilled or rejected;
\* the reaction of line 200 to the promise of Promise.all, for handle h.
Reaction(p) == [kind |-> "then", p |-> p, h |-> promises[p].handle, rejected |-> FALSE]
AllReaction(p, h, rejected) == [kind |-> "all", p |-> p, h |-> h, rejected |-> rejected]
ResultsReaction(h) == [kind |-> "results", p |-> 0, h |-> h, rejected |-> FALSE]

\* A pending promise settles, by user code at the top level or inside a
\* listener; the reaction attached to it, if any, is queued.
settle(p, state) ==
    /\ AtTopLevel \/ InListener
    /\ p \in 1..Len(promises)
    /\ promises[p].state = "pending"
    /\ promises' = [promises EXCEPT ![p].state = state]
    /\ jobs' = IF promises[p].handle # 0 THEN Append(jobs, Reaction(p)) ELSE jobs
    /\ UNCHANGED <<_events, maps, _maxListeners, _validEvents, process, _warnings, heap, stack,
                   handles, done, calls>>

\* The call: this.emit(event, args, onError) of line 191 is entered.
emit2(event, args, onError) ==
    /\ CanCall
    /\ Len(handles) < MaxHandles
    /\ \A j \in 1..Len(stack) : stack[j].op # "emit2"
    /\ Len(promises) + PromisesDue(stack) + Due(listeners(event), 1) <= MaxPromises
    /\ calls' = Called
    /\ IF ~ValidEvent(event)
       THEN /\ Raise(stack, InvalidEventName, Refused("emit2", event))
            /\ UNCHANGED maps
       ELSE /\ maps' = Touch(maps, event)
            /\ stack' = stack \o <<Emit2Frame(event, onError),
                                   EnterEmit(maps, event, args, onError)>>
            /\ done' = NoCall
    /\ UNCHANGED <<_events, _maxListeners, _validEvents, process, _warnings, heap, promises,
                   handles, jobs>>

\* !results of line 192: an array is never falsy.
Falsy(value) == value.k \in {"null", "undefined"}

\* Lines 194-195: the indices of the promises among the results, last first.
RECURSIVE PromiseIndices(_, _)
PromiseIndices(results, index) ==
    IF index < 1 THEN <<>>
    ELSE (IF IsPromise(results[index]) THEN <<index>> ELSE <<>>)
         \o PromiseIndices(results, index - 1)

\* The reactions of already settled promises are queued as they are attached
\* (h: the handle they are attached for).
RECURSIVE SettledOf(_, _, _)
SettledOf(results, indices, h) ==
    IF indices = <<>> THEN <<>>
    ELSE (IF promises[results[Head(indices)].id].state # "pending"
          THEN <<[kind |-> "then", p |-> results[Head(indices)].id, h |-> h,
                  rejected |-> FALSE]>>
          ELSE <<>>)
         \o SettledOf(results, Tail(indices), h)

\* A variant that fulfils without waiting for the promises.
PromiseAllEager(handle, rejected, error) ==
    IF handle.all # "pending" THEN handle
    ELSE IF rejected THEN [handle EXCEPT !.all = "rejected", !.error = error]
    ELSE [handle EXCEPT !.all = "fulfilled"]

\* A variant that waits for every promise before it rejects.
PromiseAllLate(handle, rejected, error) ==
    IF handle.all # "pending" THEN handle
    ELSE IF rejected /\ handle.waiting = 1
         THEN [handle EXCEPT !.all = "rejected", !.error = error]
    ELSE IF rejected THEN [handle EXCEPT !.waiting = @ - 1]
    ELSE IF handle.waiting = 0 THEN [handle EXCEPT !.all = "fulfilled"]
    ELSE handle

\* Promise.all(promises) of line 200: how its promise (`all`) stands once one
\* more of the `then` promises of line 196 has been reacted to, `waiting`
\* being the number of those not yet fulfilled; with no promise to wait for
\* it is fulfilled from the start.
PromiseAll(handle, rejected, error) ==
    IF handle.all # "pending" THEN handle
    ELSE IF rejected THEN [handle EXCEPT !.all = "rejected", !.error = error]
    ELSE IF handle.waiting = 0 THEN [handle EXCEPT !.all = "fulfilled"]
    ELSE handle

\* The reaction of line 200 is queued when the promise of Promise.all settles.
ThenResults(before, after, h) ==
    IF before.all = "pending" /\ after.all # "pending" THEN <<ResultsReaction(h)>> ELSE <<>>

\* The promise emit2 returns, as line 200 creates it: pending.  `results` is
\* the array that lines 197-198 write and that it will be fulfilled with;
\* `emitted` and `ran` record, for the properties, the emit call and the
\* order in which the reactions of lines 197-198 ran.
Handle(frame, waiting) ==
    [state |-> "pending", all |-> "pending", results |-> frame.results.items,
     onError |-> frame.onError, waiting |-> waiting, error |-> Undefined,
     emitted |-> frame.emitted, ran |-> <<>>]

\* emit has returned: lines 192-200.
emit2_then ==
    /\ stack # <<>>
    /\ Top(stack).op = "emit2"
    /\ Top(stack).returned
    /\ LET f == Top(stack)
           h == Len(handles) + 1
           indices == PromiseIndices(f.results.items, Len(f.results.items))
           handle == PromiseAll(Handle(f, Len(indices)), FALSE, Undefined)
       IN  IF Falsy(f.results)
           THEN /\ Return(f, f.results)
                /\ UNCHANGED <<promises, handles, jobs>>
           ELSE /\ promises' = [p \in 1..Len(promises) |->
                        IF \E j \in 1..Len(indices) : f.results.items[indices[j]].id = p
                        THEN [promises[p] EXCEPT
                                 !.handle = h,
                                 !.index = CHOOSE x \in Range(indices) :
                                               f.results.items[x].id = p]
                        ELSE promises[p]]
                /\ jobs' = jobs \o SettledOf(f.results.items, indices, h)
                                \o ThenResults(Handle(f, Len(indices)), handle, h)
                /\ handles' = Append(handles, handle)
                /\ Return(f, [k |-> "promise", of |-> "emit2", id |-> h])
    /\ UNCHANGED <<_events, maps, _maxListeners, _validEvents, process, _warnings, heap, calls>>

\* The reaction of line 197 or 198 for promise p: what it makes of the array,
\* and whether the `then` promise of line 196 is rejected (handleError threw).
React(handle, p) ==
    LET e == handleError(handle.results, Err(promises[p].cb), handle.onError,
                         promises[p].index)
    IN  IF promises[p].state = "fulfilled"
        THEN [rejected |-> FALSE,
              results |-> SetAt(handle.results, promises[p].index, Val(promises[p].cb))]
        ELSE [rejected |-> e.threw, results |-> e.results]

\* A microtask runs, the call stack being empty: the reaction at the head of
\* the queue.
run_job ==
    /\ stack = <<>>
    /\ jobs # <<>>
    /\ LET job == Head(jobs)
           h == job.h
           handle == handles[h]
       IN  CASE job.kind = "then" ->
                  \* line 197 / 198; the `then` promise settles and the reaction
                  \* of Promise.all to it is queued
                  /\ handles' = [handles EXCEPT ![h] =
                         [handle EXCEPT !.results = React(handle, job.p).results,
                                        !.ran = Append(@, job.p)]]
                  /\ jobs' = Append(Tail(jobs),
                                    AllReaction(job.p, h, React(handle, job.p).rejected))
             [] job.kind = "all" ->
                  \* Promise.all counts a fulfilment, or is rejected
                  LET counted == [handle EXCEPT !.waiting =
                                      IF job.rejected THEN @ ELSE @ - 1]
                      after == PromiseAll(counted, job.rejected, Err(promises[job.p].cb))
                  IN  /\ handles' = [handles EXCEPT ![h] = after]
                      /\ jobs' = Tail(jobs) \o ThenResults(handle, after, h)
             [] job.kind = "results" ->
                  \* line 200: () => results, or the rejection passed on
                  /\ handles' = [handles EXCEPT ![h].state = handle.all]
                  /\ jobs' = Tail(jobs)
    /\ UNCHANGED <<_events, maps, _maxListeners, _validEvents, process, _warnings, heap, stack,
                   promises, done, calls>>

----------------------------------------------------------------------------
(* removeAllListeners(event), lines 142-151, and listeners(event) as a     *)
(* call of user code.                                                      *)

\* The absent argument of removeAllListeners() (undefined or null).
NoEvent == "undefined"

\* removeAllListeners under way.  Without an event it walks the keys of the
\* map that was installed when it began (Map.prototype.forEach: in insertion
\* order, keys added meanwhile included), `k` being the next key; `last`
\* says that the closing removeListener call of line 145 has been made.
\* `start` records, for the properties, how things stood when the call began.
RemoveAllFrame(event) ==
    [op |-> "removeAllListeners", event |-> event, map |-> _events, k |-> 1,
     last |-> FALSE,
     start |-> [records |-> Len(heap),
                spliced |-> {r \in 1..Len(heap) : heap[r].spliced},
                observers |-> listeners("removeListener"),
                seen |-> [j \in 1..Len(listeners("removeListener")) |->
                             heap[listeners("removeListener")[j]].calls],
                calls |-> Called]]

\* Line 145: this.removeListener(event, this.listeners(event)).  The argument
\* is evaluated first and throws for a name off the allow-list.
RemoveAllOf(stk, ms, frame, event) ==
    IF ~ValidEvent(event)
    THEN /\ Raise(stk, InvalidEventName, Refused("removeAllListeners", event))
         /\ maps' = ms
    ELSE EnterRemove(Append(stk, [frame EXCEPT !.last = TRUE]), Touch(ms, event),
                     event, LiveList(event))

\* The call.  With an event, line 145.  Without, the forEach of line 146 begins.
removeAllListeners(event) ==
    /\ CanCall
    /\ calls' = Called
    /\ IF event = NoEvent
       THEN /\ stack' = Append(stack, RemoveAllFrame(event))
            /\ done' = NoCall
            /\ UNCHANGED maps
       ELSE RemoveAllOf(stack, maps, RemoveAllFrame(event), event)
    /\ UNCHANGED <<_events, _maxListeners, _validEvents, process, _warnings, heap, promises,
                   handles, jobs>>

\* A variant without the test of line 147: every key is treated alike.
SkippedNever(event) ==
    FALSE

\* Line 147: the forEach passes over the key 'removeListener'.
Skipped(event) ==
    event = "removeListener"

\* One turn of the forEach of lines 146-149: this.removeListener(event,
\* listeners) with a key of the map and the array stored under it; or line
\* 150 when the forEach is over.
removeAllListeners_forEach ==
    /\ stack # <<>>
    /\ Top(stack).op = "removeAllListeners"
    /\ ~Top(stack).last
    /\ LET f == Top(stack)
           keys == maps[f.map].keys
       IN  IF f.k > Len(keys)
           THEN RemoveAllOf(Pop(stack), maps, f, "removeListener")
           ELSE IF ~Skipped(keys[f.k])
           THEN EnterRemove(Append(Pop(stack), [f EXCEPT !.k = @ + 1]), maps,
                            keys[f.k], LiveListOf(f.map, keys[f.k]))
           ELSE /\ stack' = SetTop(stack, [f EXCEPT !.k = @ + 1])
                /\ UNCHANGED <<maps, done>>
    /\ UNCHANGED <<_events, _maxListeners, _validEvents, process, _warnings, heap, promises,
                   handles, jobs, calls>>

\* The removeListener call of line 145 has returned `this`, which is returned.
removeAllListeners_return ==
    /\ stack # <<>>
    /\ Top(stack).op = "removeAllListeners"
    /\ Top(stack).last
    /\ Return(Top(stack), This)
    /\ UNCHANGED <<_events, maps, _maxListeners, _validEvents, process, _warnings, heap,
                   promises, handles, jobs, calls>>

\* listeners(event) called by user code, lines 220-228: the event's own array.
getListeners(event) ==
    /\ CanCall
    /\ calls' = Called
    /\ IF ~ValidEvent(event)
       THEN /\ Raise(stack, InvalidEventName, Refused("listeners", event))
            /\ UNCHANGED maps
       ELSE /\ maps' = Touch(maps, event)
            /\ done' = IF stack = <<>>
                       THEN Returned([op |-> "listeners", event |-> event], LiveList(event))
                       ELSE NoCall
            /\ UNCHANGED stack
    /\ UNCHANGED <<_events, _maxListeners, _validEvents, process, _warnings, heap, promises,
                   handles, jobs>>

----------------------------------------------------------------------------
(* Construction and configuration.                                         *)

\* Lines 62-66: the names are pushed one by one; a name that is on the list
\* already (index: its JavaScript index) ends the construction with an error.
RECURSIVE PushEvents(_, _, _)
PushEvents(validEvents, events, index) ==
    IF index >= Len(events) THEN [threw |-> FALSE, error |-> Undefined,
                                  validEvents |-> validEvents]
    ELSE IF events[index + 1] \in Range(validEvents)
    THEN [threw |-> TRUE,
          error |-> [k |-> "EventEmitterError", of |-> "Event is already on the list",
                     id |-> index],
          validEvents |-> validEvents]
    ELSE PushEvents(Append(validEvents, events[index + 1]), events, index + 1)

\* constructor(...events), lines 55-68: the allow-list, or the error thrown.
constructor(events) ==
    IF Len(events) > 0
    THEN PushEvents(<<"newListener", "removeListener">>, events, 0)
    ELSE [threw |-> FALSE, error |-> Undefined, validEvents |-> <<>>]

\* The fields as initialised at lines 41-44 and by the constructor; there is
\* an emitter only when the constructor did not throw.
Constructed(events, all, nested) ==
    /\ ~constructor(events).threw
    /\ _events = 1
    /\ maps = <<EmptyMap>>
    /\ _maxListeners = 10
    /\ _validEvents = constructor(events).validEvents
    /\ _warnings = <<>>
    /\ process = <<>>
    /\ heap = <<>>
    /\ stack = <<>>
    /\ promises = <<>>
    /\ handles = <<>>
    /\ jobs = <<>>
    /\ done = NoCall
    /\ calls = [all |-> all, nested |-> nested]

\* setMaxListeners(count), lines 75-81, for a number count.
setMaxListeners(count) ==
    /\ CanCall
    /\ calls' = Called
    /\ IF count < 1
       THEN /\ Raise(stack, [k |-> "EventEmitterError", of |-> "Invalid count", id |-> 0],
                     [op |-> "setMaxListeners"])
            /\ UNCHANGED _maxListeners
       ELSE /\ _maxListeners' = count
            /\ done' = IF stack = <<>>
                       THEN Returned([op |-> "setMaxListeners"], This)
                       ELSE NoCall
            /\ UNCHANGED stack
    /\ UNCHANGED <<_events, maps, _validEvents, process, _warnings, heap, promises, handles,
                   jobs>>

----------------------------------------------------------------------------
(* events(events), lines 206-214.                                          *)

\* An EventsMap object as a value.
MapObject(m) == [k |-> "EventsMap", of |-> "", id |-> m]

\* What user code may pass: nothing; an EventsMap object it holds (one that
\* events() returned earlier); an EventsMap it has just made,
\* new EventsMap([[event, [{callback, count}, ...]]]) or new EventsMap(); or
\* a value that is no EventsMap.
NewMap(event, entries) == [k |-> "new EventsMap", of |-> event, entries |-> entries]
NotAMap == [k |-> "object", of |-> "", id |-> 0]

\* A listener object that user code made itself.
OwnListener(event, entry) ==
    [callback |-> entry.callback, count |-> entry.count,
     event |-> event, limit |-> entry.count, prepended |-> FALSE,
     calls |-> 0, spliced |-> FALSE]

\* new EventsMap(...) with the given entry, its listener objects being those
\* numbered from `first`.
MadeMap(map, first) ==
    IF map.of = NoEvent THEN EmptyMap
    ELSE [keys |-> <<map.of>>,
          lists |-> [e \in EventNames |->
                        IF e = map.of
                        THEN [j \in 1..Len(map.entries) |-> first + j - 1]
                        ELSE <<>>]]

\* The call.  Line 208: without an argument the installed map is returned;
\* lines 209-210: a value that is no EventsMap is refused; line 211: the map
\* is installed, whatever it holds, and returned.
events(map) ==
    /\ CanCall
    /\ map.k = "EventsMap" => map.id \in 1..Len(maps)
    /\ map.k = "new EventsMap" =>
          /\ Len(maps) < MaxMaps
          /\ Len(heap) + Pending(stack) + Len(map.entries) <= MaxRecords
    /\ calls' = Called
    /\ IF map.k = "undefined"
       THEN /\ done' = IF stack = <<>>
                       THEN Returned([op |-> "events"], MapObject(_events))
                       ELSE NoCall
            /\ UNCHANGED <<_events, maps, heap, stack>>
       ELSE IF map.k \notin {"EventsMap", "new EventsMap"}
       THEN /\ Raise(stack, InvalidEvents, [op |-> "events"])
            /\ UNCHANGED <<_events, maps, heap>>
       ELSE /\ IF map.k = "EventsMap"
               THEN /\ _events' = map.id
                    /\ UNCHANGED <<maps, heap>>
               ELSE /\ _events' = Len(maps) + 1
                    /\ maps' = Append(maps, MadeMap(map, Len(heap) + 1))
                    /\ heap' = heap \o [j \in 1..Len(map.entries) |->
                                           OwnListener(map.of, map.entries[j])]
            /\ done' = IF stack = <<>>
                       THEN Returned([op |-> "events"], MapObject(_events'))
                       ELSE NoCall
            /\ UNCHANGED stack
    /\ UNCHANGED <<_maxListeners, _validEvents, process, _warnings, promises, handles, jobs>>

----------------------------------------------------------------------------
(* The emitter used synchronously: new EventEmitter(), then any calls of   *)
(* on, once, removeListener and emit, from the top level and from inside    *)
(* listeners.                                                              *)

Init == Constructed(<<>>, MaxCalls, MaxNested)

SyncCallbacks == {"A", "B", "T"}
Prepend(b) == [NoOptions EXCEPT !.prepend = b]

Steps ==
    \/ emit_for
    \/ emit_return
    \/ listener_return
    \/ listener_throw
    \/ addListener_push
    \/ removeListener_forEach
    \/ removeListener_return

Next ==
    \/ \E cb \in SyncCallbacks, b \in BOOLEAN : on("message", Fn(cb), Prepend(b))
    \/ \E cb \in SyncCallbacks : once("message", Fn(cb), NoOptions)
    \/ \E cb \in SyncCallbacks : removeListener("message", Fn(cb))
    \/ \E d \in Directives : emit("message", Undefined, d)
    \/ Steps

Spec == Init /\ [][Next]_vars

----------------------------------------------------------------------------
(* The emitter used with asynchronous listeners: new EventEmitter(), on    *)
(* registrations of synchronous and async listeners, then emit2; the       *)
(* promises of the async listeners settle in any order.                    *)

InitAsync == Constructed(<<>>, MaxAsyncCalls, 0)

AsyncCallbacks == {"A", "T", "P", "Q"}

NextAsync ==
    \/ \E cb \in AsyncCallbacks : on("message", Fn(cb), NoOptions)
    \/ \E d \in Directives : emit2("message", Undefined, d)
    \/ emit_for
    \/ emit_return
    \/ listener_return
    \/ listener_throw
    \/ \E state \in {"pending", "fulfilled", "rejected"} : listener_async(state)
    \/ addListener_push
    \/ emit2_then
    \/ \E p \in 1..MaxPromises + 1, state \in {"fulfilled", "rejected"} : settle(p, state)
    \/ run_job

SpecAsync == InitAsync /\ [][NextAsync]_vars

\* Code that is running runs to completion, and the event loop runs a queued
\* promise reaction once the call stack is empty.
Proceeds ==
    \/ emit_for
    \/ emit_return
    \/ listener_return
    \/ listener_throw
    \/ \E state \in {"pending", "fulfilled", "rejected"} : listener_async(state)
    \/ addListener_push
    \/ emit2_then

SpecAsyncFair == SpecAsync /\ WF_vars(Proceeds) /\ WF_vars(run_job)

----------------------------------------------------------------------------
(* An emitter with an allow-list: new EventEmitter('message'), then calls  *)
(* of every method that takes an event name, with names on and off the     *)
(* list, from the top level and from inside listeners.                     *)

AllowLists == {<<"message">>, <<"message", "message">>, <<"newListener">>}

InitAllow == \E list \in AllowLists : Constructed(list, MaxAllowCalls, MaxAllowNested)

AllowCallbacks == {"A", "T"}
AllowNames == {"message", "newListener", "exit"}
AllowDirectives == {"undefined", "null"}

NextAllow ==
    \/ \E e \in AllowNames, cb \in AllowCallbacks : addListener(e, Fn(cb), NoOptions)
    \/ \E e \in AllowNames, cb \in AllowCallbacks : on(e, Fn(cb), NoOptions)
    \/ \E e \in AllowNames, cb \in AllowCallbacks : once(e, Fn(cb), NoOptions)
    \/ \E e \in AllowNames, cb \in AllowCallbacks : removeListener(e, Fn(cb))
    \/ \E e \in AllowNames : removeAllListeners(e)
    \/ \E e \in AllowNames, d \in AllowDirectives : emit(e, Undefined, d)
    \/ \E e \in AllowNames, d \in AllowDirectives : emit2(e, Undefined, d)
    \/ \E e \in AllowNames : getListeners(e)
    \/ Steps
    \/ removeAllListeners_return
    \/ emit2_then
    \/ run_job

SpecAllow == InitAllow /\ [][NextAllow]_vars

----------------------------------------------------------------------------
(* Many listeners: new EventEmitter(), setMaxListeners with a small        *)
(* maximum (or an invalid one), then registrations, of one function, of a  *)
(* list of two or of an empty list, and removals.                          *)

InitWarn == Constructed(<<>>, MaxWarnCalls, 0)

WarnCallbacks == {"A", "B"}
WarnNames == {"message", "exit"}
WarnCounts == {0, 1, 2}

NextWarn ==
    \/ \E count \in WarnCounts : setMaxListeners(count)
    \/ \E e \in WarnNames, cb \in WarnCallbacks, b \in BOOLEAN : on(e, Fn(cb), Prepend(b))
    \/ \E e \in WarnNames : addListener(e, Array(<<Fn("A"), Fn("B")>>), NoOptions)
    \/ \E e \in WarnNames : addListener(e, Array(<<>>), NoOptions)
    \/ \E e \in WarnNames, cb \in WarnCallbacks : removeListener(e, Fn(cb))
    \/ emit_return
    \/ addListener_push
    \/ removeListener_forEach
    \/ removeListener_return

SpecWarn == InitWarn /\ [][NextWarn]_vars

----------------------------------------------------------------------------
(* Observers: new EventEmitter(), then registrations and removals for      *)
(* `message` and for the emitter's own events newListener and              *)
(* removeListener, of one function or of a list of two, removals of the    *)
(* listeners in an array of the registry, from the top level and from      *)
(* inside the observers.                                                   *)

InitNotify == Constructed(<<>>, MaxNotifyCalls, MaxNotifyNested)

NotifyCallbacks == {"A", "B"}
NotifyNames == {"message", "newListener", "removeListener"}
BothCallbacks == Array(<<Fn("A"), Fn("B")>>)

NextNotify ==
    \/ \E e \in NotifyNames, cb \in NotifyCallbacks : on(e, Fn(cb), NoOptions)
    \/ \E e \in NotifyNames : addListener(e, BothCallbacks, NoOptions)
    \/ \E e \in NotifyNames, cb \in NotifyCallbacks : removeListener(e, Fn(cb))
    \/ \E e \in NotifyNames : removeListener(e, BothCallbacks)
    \/ \E e, other \in NotifyNames : removeListener(e, LiveList(other))
    \/ emit_for
    \/ emit_return
    \/ listener_return
    \/ addListener_push
    \/ removeListener_forEach
    \/ removeListener_return

SpecNotify == InitNotify /\ [][NextNotify]_vars

----------------------------------------------------------------------------
(* Reset: new EventEmitter(), then registrations for two events and for    *)
(* removeListener, and removeAllListeners(), from the top level and from   *)
(* inside the observers of removeListener.                                 *)

InitReset == Constructed(<<>>, MaxResetCalls, MaxResetNested)

ResetCallbacks == {"A", "B"}
ResetNames == {"message", "exit", "removeListener"}

NextReset ==
    \/ \E e \in ResetNames, cb \in ResetCallbacks : on(e, Fn(cb), NoOptions)
    \/ \E cb \in ResetCallbacks : once("removeListener", Fn(cb), NoOptions)
    \/ removeAllListeners(NoEvent)
    \/ emit_for
    \/ emit_return
    \/ listener_return
    \/ addListener_push
    \/ removeListener_forEach
    \/ removeListener_return
    \/ removeAllListeners_forEach
    \/ removeAllListeners_return

SpecReset == InitReset /\ [][NextReset]_vars

----------------------------------------------------------------------------
(* Counted listeners: new EventEmitter(), then addListener with a count,   *)
(* on, an observer of removeListener, removeListener and emit, from the    *)
(* top level and from inside listeners.                                    *)

InitExpiry == Constructed(<<>>, MaxExpiryCalls, MaxExpiryNested)

ExpiryCallbacks == {"A", "T"}
ExpiryCounts == {0, 1, 2}
Count(n) == [NoOptions EXCEPT !.hasCount = TRUE, !.count = n]

NextExpiry ==
    \/ \E cb \in ExpiryCallbacks, n \in ExpiryCounts :
          addListener("message", Fn(cb), Count(n))
    \/ \E cb \in ExpiryCallbacks : on("message", Fn(cb), NoOptions)
    \/ on("removeListener", Fn("A"), NoOptions)
    \/ \E cb \in ExpiryCallbacks : removeListener("message", Fn(cb))
    \/ \E d \in Directives : emit("message", Undefined, d)
    \/ Steps

SpecExpiry == InitExpiry /\ [][NextExpiry]_vars

----------------------------------------------------------------------------
(* Replacing the registry: new EventEmitter() or new EventEmitter(         *)
(* 'message'), then events() with and without a map (an empty one, one     *)
(* that holds listeners for `message` or for `exit`, one installed         *)
(* before), registrations for `message` and `newListener`, emit and        *)
(* removeAllListeners(), from the top level and from inside listeners.     *)

InitEvents == \E list \in {<<>>, <<"message">>} :
                 Constructed(list, MaxEventsCalls, MaxEventsNested)

OwnMaps ==
    {NewMap(NoEvent, <<>>),
     NewMap("message", <<[callback |-> "A", count |-> 1],
                         [callback |-> "A", count |-> Infinity]>>),
     NewMap("exit", <<[callback |-> "A", count |-> Infinity]>>)}

NextEvents ==
    \/ events(Undefined)
    \/ events(NotAMap)
    \/ \E map \in OwnMaps : events(map)
    \/ \E m \in 1..MaxMaps : events(MapObject(m))
    \/ \E e \in {"message", "newListener"} : on(e, Fn("A"), NoOptions)
    \/ once("message", Fn("B"), NoOptions)
    \/ emit("message", Undefined, "undefined")
    \/ removeAllListeners(NoEvent)
    \/ emit_for
    \/ emit_return
    \/ listener_return
    \/ addListener_push
    \/ removeListener_forEach
    \/ removeListener_return
    \/ removeAllListeners_forEach
    \/ removeAllListeners_return

SpecEvents == InitEvents /\ [][NextEvents]_vars

----------------------------------------------------------------------------
(* Properties.  They are stated over the emit calls of which the model     *)
(* knows the course: those under way on the stack, and the most recent     *)
(* top-level call, which `done` keeps with what it returned or threw.      *)

Records == 1..Len(heap)

\* The array of the installed map for an event after the step, and the
\* array a method under way read at its first line after the step.
listenersNext(event) == maps'[_events'].lists[event]
LiveNext(frame) == maps'[frame.map].lists[frame.event]

\* The emit loops under way.
Running == {stack[j] : j \in {x \in 1..Len(stack) : stack[x].op = "emit"}}

\* The most recent top-level call was an emit that entered its loop.
EmitDone == done.call.op = "emit"

\* The listener objects a loop has invoked so far, in order.
InvokedRecs(f) == [j \in 1..Len(f.invoked) |-> f.invoked[j].rec]

\* The positions at which a listener threw.
Throwers(f) == {j \in 1..Len(f.outs) : f.outs[j].kind = "throw"}

\* The listener objects ever registered for an event, in registration order
\* (objects are numbered as they are created).
RECURSIVE RegisteredFrom(_, _)
RegisteredFrom(event, rec) ==
    IF rec > Len(heap) THEN <<>>
    ELSE (IF heap[rec].event = event THEN <<rec>> ELSE <<>>) \o RegisteredFrom(event, rec + 1)
Registered(event) == RegisteredFrom(event, 1)

\* Every registration for the event so far was an `on` without prepend, and
\* removeListener has taken none of them out.
OnlyOn(event) ==
    \A r \in Records : heap[r].event = event =>
        heap[r].limit = Infinity /\ ~heap[r].prepended /\ ~heap[r].spliced

\* C1 (as claimed): a listener registered via once is invoked at most once,
\* whatever emits are made, re-entrant ones included.
C1_OnceAtMostOnce ==
    \A r \in Records : heap[r].limit = 1 => heap[r].calls <= 1

\* C2 (as claimed): emit on an event without listeners returns null, not an
\* empty array.
C2_NoListenersNull ==
    (EmitDone /\ done.kind = "return" /\ Len(done.call.snap) = 0)
        => done.value.k = "null"

\* C5: after on registrations only (no prepend) the event's array is the
\* registration order; every emit on the event invokes a prefix of it, a
\* completed one all that were registered when it began, and the results of
\* listeners that all returned are their values in that order.
C5_RegistrationOrder ==
    \A e \in EventNames : OnlyOn(e) =>
        /\ listeners(e) = Registered(e)
        /\ \A f \in Running \cup (IF EmitDone THEN {done.call} ELSE {}) : f.event = e =>
              /\ Len(f.snap) <= Len(Registered(e))
              /\ f.snap = SubSeq(Registered(e), 1, Len(f.snap))
              /\ InvokedRecs(f) = SubSeq(Registered(e), 1, Len(f.invoked))
              /\ Throwers(f) = {} =>
                    f.results = [j \in 1..Len(f.outs) |-> Val(heap[f.invoked[j].rec].callback)]
        /\ (EmitDone /\ done.call.event = e /\ done.kind = "return") =>
              /\ InvokedRecs(done.call) = done.call.snap
              /\ done.value = Array(done.call.results)

C5_Witness ==
    /\ stack = <<>>
    /\ EmitDone
    /\ done.kind = "return"
    /\ OnlyOn("message")
    /\ Len(done.call.snap) = 3
    /\ done.value.items = <<Val("B"), Val("A"), Val("B")>>

\* C6: with the directive unset, the listener that throws is the last one the
\* loop invokes: the call ends there with the thrown error and returns no
\* results; no loop goes on after a throw.
C6_ThrowAborts ==
    /\ \A f \in Running : f.onError = "undefined" => Throwers(f) = {}
    /\ (EmitDone /\ done.call.onError = "undefined") =>
          LET f == done.call IN
          /\ Len(f.invoked) <= Len(f.snap)
          /\ InvokedRecs(f) = SubSeq(f.snap, 1, Len(f.invoked))
          /\ Throwers(f) \subseteq {Len(f.invoked)}
          /\ Throwers(f) # {} <=> done.kind = "throw"
          /\ Throwers(f) # {} => done.value = f.outs[Len(f.outs)].value
          /\ Throwers(f) = {} => Len(f.invoked) = Len(f.snap) /\ done.value.k = "array"

C6_Witness ==
    /\ EmitDone
    /\ done.call.onError = "undefined"
    /\ done.kind = "throw"
    /\ done.value = Err("T")
    /\ done.call.results = <<Val("A")>>
    /\ Len(done.call.invoked) = 2
    /\ Len(done.call.snap) = 3

\* What one listener contributes to the results under a directive that is set.
Contribution(out, onError) ==
    IF out.kind = "return" THEN <<out.value>>
    ELSE IF onError = "false" THEN <<out.value>>
    ELSE IF onError = "fn" THEN <<Handled(out.value)>>
    ELSE <<>>

RECURSIVE Contributions(_, _)
Contributions(outs, onError) ==
    IF outs = <<>> THEN <<>>
    ELSE Contribution(Head(outs), onError) \o Contributions(Tail(outs), onError)

\* C7: with a directive that is set, emit invokes every listener of the
\* snapshot and returns, in listener order, each return value and, for each
\* throw, what the directive makes of the error.
C7_ErrorsAsDirected ==
    (EmitDone /\ done.call.onError # "undefined") =>
        /\ done.kind = "return"
        /\ InvokedRecs(done.call) = done.call.snap
        /\ Len(done.call.outs) = Len(done.call.snap)
        /\ done.value = Array(Contributions(done.call.outs, done.call.onError))

C7_Witness ==
    /\ EmitDone
    /\ done.call.onError = "false"
    /\ done.kind = "return"
    /\ [j \in 1..Len(done.call.snap) |-> heap[done.call.snap[j]].callback] = <<"A", "T", "B">>
    /\ done.value.items = <<Val("A"), Err("T"), Val("B")>>

\* C8: an emit invokes the listener objects that were in the event's array
\* when it began, in that order, whatever is added or removed meanwhile; a
\* call that returns has invoked them all.
C8_Snapshot ==
    \A f \in Running \cup (IF EmitDone THEN {done.call} ELSE {}) :
        /\ Len(f.invoked) <= Len(f.snap)
        /\ InvokedRecs(f) = SubSeq(f.snap, 1, Len(f.invoked))
        /\ (f \notin Running /\ done.kind = "return") => InvokedRecs(f) = f.snap

\* A listener added during the dispatch was not invoked, one that a listener
\* removed before its turn was.
C8_Witness ==
    /\ stack = <<>>
    /\ EmitDone
    /\ done.kind = "return"
    /\ \E j \in 1..Len(done.call.invoked) :
          /\ ~done.call.invoked[j].present
          /\ heap[done.call.invoked[j].rec].spliced
          /\ heap[done.call.invoked[j].rec].calls = 1
    /\ \E r \in Range(listeners(done.call.event)) :
          /\ r \notin Range(done.call.snap)
          /\ heap[r].calls = 0

\* The array without the first listener object that has the callback.
WithoutFirst(list, cb) ==
    LET matching == {j \in 1..Len(list) : heap[list[j]].callback = cb}
        first == CHOOSE j \in matching : \A x \in matching : j <= x
    IN  IF matching = {} THEN list
        ELSE [j \in 1..(Len(list) - 1) |-> IF j < first THEN list[j] ELSE list[j + 1]]

\* C10: a turn of removeListener for a callback takes out of the event's
\* array the first listener object with that callback and nothing else.
C10_RemovesFirstOnly ==
    [][(stack # <<>> /\ Top(stack).op = "removeListener"
            /\ Top(stack).i <= Len(Top(stack).list))
       => /\ listenersNext(Top(stack).event)
               = WithoutFirst(listeners(Top(stack).event), Top(stack).list[Top(stack).i].of)
          /\ \A e \in EventNames \ {Top(stack).event} : listenersNext(e) = listeners(e)
      ]_vars

\* Registered twice, removed once: one registration is left, the later one.
C10_Witness ==
    /\ stack = <<>>
    /\ done.call.op = "removeListener"
    /\ done.call.removed = 1
    /\ \E r1, r2 \in Records :
          /\ r1 < r2
          /\ heap[r1].callback = heap[r2].callback
          /\ heap[r1].event = "message" /\ heap[r2].event = "message"
          /\ ~heap[r1].prepended /\ ~heap[r2].prepended
          /\ heap[r1].spliced
          /\ listeners("message") = <<r2>>

----------------------------------------------------------------------------
(* Properties of emit2.                                                    *)

Handles == 1..Len(handles)

\* The promises among the results emit handed to emit2 for handle h.
PromisesOf(h) ==
    {handles[h].emitted.results[j].id :
        j \in {x \in 1..Len(handles[h].emitted.results) :
                  IsPromise(handles[h].emitted.results[x])}}

\* What the entry emit returned for one listener comes to once it has settled.
Settled(entry, onError) ==
    IF ~IsPromise(entry) THEN <<entry>>
    ELSE IF promises[entry.id].state = "fulfilled" THEN <<Val(entry.of)>>
    ELSE Contribution([kind |-> "throw", value |-> Err(entry.of)], onError)

RECURSIVE Reconciled(_, _)
Reconciled(entries, onError) ==
    IF entries = <<>> THEN <<>>
    ELSE Settled(Head(entries), onError) \o Reconciled(Tail(entries), onError)

\* C3 (as claimed): when emit2 resolves, the results are, in listener order,
\* the synchronous values and the resolved values, each rejected entry
\* removed or replaced in place, whatever the order of settlement.
C3_ReconciledInPlace ==
    \A h \in Handles : handles[h].state = "fulfilled" =>
        handles[h].results = Reconciled(handles[h].emitted.results, handles[h].onError)

\* C4 (as claimed): with the directive unset, the promise of emit2 does not
\* fail while another entry of the emission is still pending.
C4_FailsAfterSiblingsSettle ==
    \A h \in Handles : (handles[h].onError = "undefined" /\ handles[h].state = "rejected")
        => \A p \in PromisesOf(h) : promises[p].state # "pending"

\* The reactions that have run for a rejected promise, by position in `ran`.
RejectionsRun(h) ==
    {j \in 1..Len(handles[h].ran) : promises[handles[h].ran[j]].state = "rejected"}

\* The reactions of Promise.all and of line 200 for handle h that are queued.
Passing(h) == {j \in 1..Len(jobs) : jobs[j].h = h /\ jobs[j].kind # "then"}

\* C4 (amended): with the directive unset, the promise of emit2 fails only
\* when the reaction of some rejected entry has run; once one has run, the
\* promise has failed as soon as the reactions that pass the rejection on
\* (microtasks that are queued already) have run, pending siblings or not,
\* with the error of the first such reaction; it is fulfilled only when the
\* reactions of all entries ran and none rejected, and then as soon as the
\* reactions that pass this on have run.
C4_FailsAtFirstRejection ==
    \A h \in Handles : handles[h].onError = "undefined" =>
        LET rejections == RejectionsRun(h)
            first == CHOOSE j \in rejections : \A x \in rejections : j <= x
        IN  /\ handles[h].state = "rejected" => rejections # {}
            /\ (rejections # {} /\ Passing(h) = {}) => handles[h].state = "rejected"
            /\ (rejections # {} /\ handles[h].state = "rejected") =>
                  handles[h].error = Err(promises[handles[h].ran[first]].cb)
            /\ handles[h].state = "fulfilled" =>
                  (rejections = {} /\ Range(handles[h].ran) = PromisesOf(h))
            /\ (rejections = {} /\ Range(handles[h].ran) = PromisesOf(h)
                    /\ Passing(h) = {}) => handles[h].state = "fulfilled"

\* The promise of emit2 has failed while a sibling entry is still pending.
C4_Witness ==
    \E h \in Handles :
        /\ handles[h].onError = "undefined"
        /\ handles[h].state = "rejected"
        /\ \E p \in PromisesOf(h) : promises[p].state = "pending"

\* C9: emit2 runs the synchronous part of every listener of the snapshot, in
\* order, before any reaction to their promises: no reaction is attached to
\* a promise while the loop that received it is under way, no reaction runs
\* while a call is on the stack, every promise emit2 returned stems from a
\* call that invoked the whole snapshot, an async listener always hands the
\* loop a promise (its rejection is no throw), and what emit2 throws
\* synchronously is the error of a synchronous listener.
C9_SyncBeforeReactions ==
    /\ [](/\ \A f \in Running : \A j \in 1..Len(f.results) :
                IsPromise(f.results[j]) => promises[f.results[j].id].handle = 0
          /\ \A f \in Running : \A j \in 1..Len(f.outs) :
                Completes(heap[f.invoked[j].rec].callback) = "async"
                    => f.outs[j].kind = "return" /\ IsPromise(f.outs[j].value)
          /\ \A h \in Handles :
                /\ InvokedRecs(handles[h].emitted) = handles[h].emitted.snap
                /\ Len(handles[h].emitted.outs) = Len(handles[h].emitted.snap)
                /\ \A j \in 1..Len(handles[h].ran) : handles[h].ran[j] \in PromisesOf(h)
          /\ (done.call.op = "emit2" /\ done.kind = "throw") =>
                Completes(done.value.of) = "throw")
    /\ [][stack # <<>> => \A h \in Handles : handles'[h] = handles[h]]_vars

\* L1 synchronous, L2 async and rejecting, L3 synchronous: all three ran, and
\* L2's rejection was met only afterwards.
C9_Witness ==
    \E h \in Handles :
        /\ [j \in 1..Len(handles[h].emitted.snap) |->
               heap[handles[h].emitted.snap[j]].callback] = <<"A", "P", "A">>
        /\ Len(handles[h].emitted.invoked) = 3
        /\ handles[h].onError = "undefined"
        /\ handles[h].state = "rejected"
        /\ handles[h].error = Err("P")

----------------------------------------------------------------------------
(* Properties of the allow-list.                                           *)

\* The frames of methods that were given an event name.
Named == {stack[j] : j \in {x \in 1..Len(stack) :
             stack[x].op \in {"emit", "emit2", "addListener", "removeListener",
                              "removeAllListeners"}}}

\* A step in which a call was made and refused on entry: the caller got the
\* error at once (at the top level), or the calling listener was left by it.
RefusedStep ==
    /\ calls' # calls
    /\ \/ stack = <<>> /\ stack' = <<>> /\ done'.kind = "throw"
       \/ Len(stack') < Len(stack)

\* C11: with an allow-list, a call naming an event off the list fails with
\* InvalidEventName on entry: it invokes no listener and leaves the registry
\* as it was, so the registry never holds an entry, a listener or a method
\* under way for such a name; newListener and removeListener are on the list.
C11_AllowList ==
    /\ [](Len(_validEvents) > 0 =>
            /\ {"newListener", "removeListener"} \subseteq Range(_validEvents)
            /\ Range(maps[_events].keys) \subseteq Range(_validEvents)
            /\ \A e \in EventNames \ Range(_validEvents) : listeners(e) = <<>>
            /\ \A r \in Records : heap[r].event \in Range(_validEvents)
            /\ \A f \in Named : f.event \in Range(_validEvents)
            /\ done.call.op = "refused" =>
                  /\ done.call.event \notin Range(_validEvents)
                  /\ done.kind = "throw"
                  /\ done.value = InvalidEventName
            /\ done.call.op \in {"emit", "emit2", "addListener", "removeListener",
                                 "removeAllListeners", "listeners"} =>
                  done.call.event \in Range(_validEvents))
    /\ [][(Len(_validEvents) > 0 /\ RefusedStep) =>
            /\ _events' = _events
            /\ maps' = maps
            /\ heap' = heap
            /\ handles' = handles
            /\ (stack = <<>> => done'.call.op = "refused" /\ done'.value = InvalidEventName)
         ]_vars

\* emit2 was refused for a name off the list, on an emitter that has listeners
\* for `message` and an observer on `newListener`.
C11_Witness ==
    /\ done.call.op = "refused"
    /\ done.call.method = "emit2"
    /\ done.call.event = "exit"
    /\ listeners("message") # <<>>
    /\ listeners("newListener") # <<>>

----------------------------------------------------------------------------
(* Properties of the overflow warning.                                     *)

\* The events for which a warning was given.
Warned == {process[j].event : j \in 1..Len(process)}

\* The step that ends an addListener call: the last listener is inserted,
\* the check of line 104 is made and the call returns.
AddListenerEnds ==
    /\ stack # <<>>
    /\ Top(stack).op = "addListener"
    /\ Top(stack).i = Len(Top(stack).list)

\* The step that is a whole addListener call with an empty list, made at
\* the top level.
AddListenerEmpty ==
    /\ stack = <<>>
    /\ stack' = <<>>
    /\ calls' # calls
    /\ done'.kind = "return"
    /\ done'.call.op = "addListener"

\* C12: the warning is given at most once for an event.  The addListener
\* call after which the event has more listeners than the maximum gives it
\* if none was given for the event before, and no other step gives one; the
\* listener is registered in either case (a call with an empty list
\* registers nothing and warns alike).
C12_WarnsOnce ==
    /\ [](/\ \A i, j \in 1..Len(process) :
               process[i].event = process[j].event => i = j
          /\ Range(_warnings) = Warned)
    /\ [][IF AddListenerEnds
          THEN LET e == Top(stack).event
                   n == Len(listenersNext(e))
               IN  /\ n = Len(listeners(e)) + 1
                   /\ Len(heap') = Len(heap) + 1
                   /\ Len(heap') \in Range(listenersNext(e))
                   /\ stack' = Pop(stack)
                   /\ process' = IF n > _maxListeners /\ e \notin Warned
                                 THEN Append(process, [event |-> e, length |-> n])
                                 ELSE process
          ELSE IF AddListenerEmpty
          THEN LET e == done'.call.event
                   n == Len(listeners(e))
               IN  /\ listenersNext(e) = listeners(e)
                   /\ heap' = heap
                   /\ process' = IF n > _maxListeners /\ e \notin Warned
                                 THEN Append(process, [event |-> e, length |-> n])
                                 ELSE process
          ELSE process' = process
         ]_vars

\* With a maximum of 1: the second listener brought the warning; it was
\* removed and a third was added, again exceeding the maximum, and there is
\* still that one warning.
C12_Witness ==
    /\ stack = <<>>
    /\ _maxListeners = 1
    /\ Len(heap) = 3
    /\ \A r \in Records : heap[r].event = "message"
    /\ heap[2].spliced
    /\ listeners("message") = <<1, 3>>
    /\ process = <<[event |-> "message", length |-> 2]>>
    /\ done.call.op = "addListener"
    /\ done.kind = "return"

----------------------------------------------------------------------------
(* Properties of the newListener and removeListener events.                *)

\* The addListener calls under way whose newListener emit for the callback
\* at hand has invoked observer o: the emit is under way and has reached o,
\* or it has returned and the insertion is the next step.
Notifying(o) ==
    {j \in 1..Len(stack) :
        /\ stack[j].op = "addListener"
        /\ \/ j = Len(stack)
           \/ /\ j < Len(stack)
              /\ stack[j + 1].op = "emit"
              /\ o \in Range(InvokedRecs(stack[j + 1]))}

\* C13: while an addListener call is not itself running, it is waiting for
\* the emit of newListener for the callback at hand, [event, listener,
\* options]; and (as long as no listener has called the emitter) a standing
\* observer of newListener has been invoked once for each listener object
\* created after it and once for each callback whose emit has reached it and
\* whose object is not inserted yet: once per callback, before the object is
\* inserted, and not for its own registration.
C13_NewListenerFirst ==
    /\ \A j \in 1..(Len(stack) - 1) : stack[j].op = "addListener" =>
          /\ stack[j + 1].op = "emit"
          /\ stack[j + 1].event = "newListener"
          /\ stack[j + 1].args
                = <<stack[j].event, stack[j].list[stack[j].i], stack[j].options>>
    /\ calls.nested = MaxNotifyNested =>
          \A o \in Records :
              (heap[o].event = "newListener" /\ heap[o].limit = Infinity /\ ~heap[o].spliced)
                  => heap[o].calls = (Len(heap) - o) + Cardinality(Notifying(o))

\* An observer of newListener is being invoked for the second callback of a
\* list: the first is registered, the second is not yet.
C13_Witness ==
    /\ Len(stack) = 3
    /\ stack[1].op = "addListener"
    /\ stack[1].event = "message"
    /\ stack[1].i = 2
    /\ stack[3].op = "call"
    /\ heap[stack[3].rec].event = "newListener"
    /\ heap[stack[3].rec].calls = 2
    /\ Len(listeners("message")) = 1
    /\ heap[listeners("message")[1]].callback = "A"

\* A turn of removeListener's forEach is the next step.
RemoveTurn ==
    /\ stack # <<>>
    /\ Top(stack).op = "removeListener"
    /\ Top(stack).i <= Top(stack).len

\* C14: a turn of removeListener that finds a listener object with the
\* callback takes it out and then enters one emit of removeListener, with
\* [event, listener], whose observers are those registered after the
\* removal, none of them invoked before it; a turn that finds none changes
\* no array, invokes nobody and goes on.  removeListener is emitted by such
\* turns only, and the call returns the emitter.
C14_RemovedThenNotified ==
    /\ [](/\ \A j \in 1..Len(stack) :
               (stack[j].op = "emit" /\ stack[j].event = "removeListener") =>
                   /\ j > 1
                   /\ stack[j - 1].op = "removeListener"
                   /\ stack[j - 1].removed >= 1
                   /\ stack[j].args = <<stack[j - 1].event, stack[j - 1].listener>>
          /\ done.call.op = "removeListener" =>
                done.kind = "return" /\ done.value = This)
    /\ [][RemoveTurn =>
            LET f == Top(stack)
                cb == Element(maps, f).of
                gone == Range(Live(maps, f)) \ Range(LiveNext(f))
            IN  IF \E r \in Range(Live(maps, f)) : heap[r].callback = cb
                THEN /\ Cardinality(gone) = 1
                     /\ \A r \in gone :
                           /\ heap[r].callback = cb
                           /\ \A e \in EventNames : r \notin Range(listenersNext(e))
                           /\ r \notin Range(Top(stack').snap)
                     /\ Len(stack') = Len(stack) + 1
                     /\ stack'[Len(stack)] = [f EXCEPT !.i = @ + 1, !.removed = @ + 1,
                                                        !.listener = Fn(cb)]
                     /\ Top(stack').op = "emit"
                     /\ Top(stack').event = "removeListener"
                     /\ Top(stack').invoked = <<>>
                     /\ Top(stack').snap = listenersNext("removeListener")
                     /\ \A r \in Records : heap'[r].calls = heap[r].calls
                ELSE /\ \A e \in EventNames : listenersNext(e) = listeners(e)
                     /\ heap' = heap
                     /\ Pop(stack') = Pop(stack)
                     /\ Top(stack').i = f.i + 1
                     /\ Top(stack').removed = f.removed
                     /\ done' = done
         ]_vars

\* removeListener was given two callbacks; one was registered and was
\* removed, the other was not: the observer was invoked once.
C14_Witness ==
    /\ stack = <<>>
    /\ done.call.op = "removeListener"
    /\ done.call.event = "message"
    /\ Len(done.call.list) = 2
    /\ done.call.removed = 1
    /\ \E o \in Records :
          /\ heap[o].event = "removeListener"
          /\ o \in Range(listeners("removeListener"))
          /\ heap[o].calls = 1
    /\ \E r \in Records : heap[r].event = "message" /\ heap[r].spliced

----------------------------------------------------------------------------
(* Properties of removeAllListeners().                                     *)

\* The most recent top-level call was removeAllListeners() and it returned.
ResetDone ==
    /\ done.call.op = "removeAllListeners"
    /\ done.call.event = NoEvent
    /\ done.kind = "return"

\* The listener objects of other events that were removed since the call began.
RemovedSince(f) ==
    {r \in Records : heap[r].spliced /\ r \notin f.start.spliced
                        /\ heap[r].event # "removeListener"}

\* How often the j-th observer of removeListener was invoked since the call began.
NotifiedSince(f, j) ==
    heap[f.start.observers[j]].calls - f.start.seen[j]

\* C15 (as claimed): when removeAllListeners() has returned no event has a
\* listener, and every unlimited observer of removeListener that was
\* registered when the call began was notified of each removal from the
\* other events.
C15_AllRemoved ==
    ResetDone =>
        /\ \A e \in EventNames : listeners(e) = <<>>
        /\ \A j \in 1..Len(done.call.start.observers) :
              heap[done.call.start.observers[j]].limit = Infinity =>
                  NotifiedSince(done.call, j) >= Cardinality(RemovedSince(done.call))

\* The removeAllListeners() calls under way.
Resetting ==
    {stack[j] : j \in {x \in 1..Len(stack) :
        stack[x].op = "removeAllListeners" /\ stack[x].event = NoEvent}}

\* The observers other than the j-th that removeListener has taken out since
\* the call began.
RemovedBeside(f, j) ==
    {i \in 1..Len(f.start.observers) \ {j} :
        heap[f.start.observers[i]].spliced /\ f.start.observers[i] \notin f.start.spliced}

\* C15 (amended): as long as no listener calls the emitter while
\* removeAllListeners() runs, the unlimited observers of removeListener stay
\* registered until every other event has been emptied, and when the call
\* has returned no event has a listener and each of these observers was
\* notified of every removal from the other events, and besides of nothing
\* but removals of other observers.
C15_AllRemovedUndisturbed ==
    /\ \A f \in Resetting : calls = f.start.calls =>
          /\ ~f.last =>
                \A j \in 1..Len(f.start.observers) :
                    heap[f.start.observers[j]].limit = Infinity =>
                        f.start.observers[j] \in Range(listeners("removeListener"))
          /\ f.last =>
                \A e \in EventNames \ {"removeListener"} : listeners(e) = <<>>
    /\ (ResetDone /\ calls = done.call.start.calls) =>
          /\ \A e \in EventNames : listeners(e) = <<>>
          /\ \A j \in 1..Len(done.call.start.observers) :
                heap[done.call.start.observers[j]].limit = Infinity =>
                    /\ NotifiedSince(done.call, j) >= Cardinality(RemovedSince(done.call))
                    /\ NotifiedSince(done.call, j)
                          <= Cardinality(RemovedSince(done.call))
                             + Cardinality(RemovedBeside(done.call, j))

\* removeListener was the first key of the map; the listeners of two other
\* events were removed, and the observer was notified of both.
C15_Witness ==
    /\ ResetDone
    /\ calls = done.call.start.calls
    /\ maps[_events].keys[1] = "removeListener"
    /\ Len(done.call.start.observers) = 1
    /\ heap[done.call.start.observers[1]].limit = Infinity
    /\ NotifiedSince(done.call, 1) = 2
    /\ {heap[r].event : r \in RemovedSince(done.call)} = {"message", "exit"}

----------------------------------------------------------------------------
(* Properties of the count of a listener.                                  *)

\* The listener objects registered with a count of at least 1.
Counted == {r \in Records : heap[r].limit # Infinity /\ heap[r].limit >= 1}

\* The listener object is in the array of its event.
Listed(r) == r \in Range(listeners(heap[r].event))

\* C16 (as claimed): a listener registered with count n >= 1 is invoked n
\* times at most, by whatever emits, and is out of the event's array once it
\* has been invoked n times; one registered with on stays in the array
\* unless removeListener takes it out.
C16_CountBoundsInvocations ==
    /\ \A r \in Counted :
          /\ heap[r].calls <= heap[r].limit
          /\ heap[r].calls >= heap[r].limit => ~Listed(r)
    /\ \A r \in Records :
          (heap[r].limit = Infinity /\ ~heap[r].spliced) => Listed(r)

\* C17 (as claimed): every listener object in an array of the registry has a
\* count of at least 1.
C17_ListedCountPositive ==
    \A e \in EventNames : \A r \in Range(listeners(e)) : heap[r].count >= 1

\* The step in which a listener throws (it makes no call of the emitter).
ThrowTurn ==
    /\ stack # <<>>
    /\ Top(stack).op = "call"
    /\ Completes(Top(stack).cb) = "throw"
    /\ calls' = calls

\* The step begins an emit loop.
EmitBegins ==
    /\ Len(stack') > Len(stack)
    /\ Top(stack').op = "emit"

\* C19: the count of a listener object is what it was registered with less
\* the number of its invocations, thrown or returned, and an object that was
\* invoked and has no invocation left is out of its event's array.  The
\* throw of a listener, handled or propagated, changes no count and no array
\* (so it restores nothing, and touches no listener that comes after the
\* thrower), and an emit that begins later does not iterate such an object.
C19_ExpiryKeptOnThrow ==
    /\ [](\A r \in Records :
            /\ heap[r].limit # Infinity => heap[r].count = heap[r].limit - heap[r].calls
            /\ heap[r].limit = Infinity => heap[r].count = Infinity
            /\ (heap[r].calls >= 1 /\ heap[r].count < 1) => ~Listed(r))
    /\ [][ThrowTurn => (heap' = heap /\ maps' = maps /\ _events' = _events)]_vars
    /\ [][EmitBegins =>
            \A r \in Range(Top(stack').snap) :
                ~(heap[r].calls >= 1 /\ heap[r].count < 1)]_vars

\* A once listener that throws was registered before another once listener.
\* The emit in which it threw was left by the error: the other listener was
\* not invoked then.  The latest emit found the other listener alone.
C19_Witness ==
    /\ stack = <<>>
    /\ EmitDone
    /\ done.kind = "return"
    /\ Len(heap) = 2
    /\ heap[1].callback = "T" /\ heap[1].limit = 1 /\ heap[1].event = "message"
    /\ heap[1].calls = 1 /\ heap[1].count = 0 /\ ~heap[1].spliced
    /\ heap[2].callback = "A" /\ heap[2].limit = 1 /\ heap[2].event = "message"
    /\ heap[2].calls = 1
    /\ done.call.snap = <<2>>
    /\ listeners("message") = <<>>

\* A turn of an emit loop is the next step.
EmitTurn ==
    /\ stack # <<>>
    /\ Top(stack).op = "emit"
    /\ Top(stack).i <= Len(Top(stack).snap)

\* C20: a turn of the emit loop, whether or not it takes the listener object
\* out of the array, enters the call of that listener and nothing else; an
\* emit of removeListener is under way only for a splice that
\* removeListener has made, and an observer of removeListener has been
\* invoked at most once for each removal made by removeListener.
C20_ExpirySilent ==
    /\ [](/\ \A j \in 1..Len(stack) :
               (stack[j].op = "emit" /\ stack[j].event = "removeListener") =>
                   j > 1 /\ stack[j - 1].op = "removeListener" /\ stack[j - 1].removed >= 1
          /\ \A o \in Records : heap[o].event = "removeListener" =>
               heap[o].calls <= Cardinality({r \in Records : heap[r].spliced}))
    /\ [][EmitTurn =>
            /\ Len(stack') = Len(stack) + 1
            /\ Top(stack').op = "call"
            /\ Top(stack').rec = Top(stack).snap[Top(stack).i]
            /\ \A e \in EventNames \ {Top(stack).event} : listenersNext(e) = listeners(e)
         ]_vars

\* An observer of removeListener was registered, then a once listener; the
\* once listener was invoked and is gone from the array, and the observer
\* was never invoked.
C20_Witness ==
    /\ stack = <<>>
    /\ \E o, r \in Records :
          /\ o < r
          /\ heap[o].event = "removeListener" /\ Listed(o) /\ heap[o].calls = 0
          /\ heap[r].event = "message" /\ heap[r].limit = 1 /\ heap[r].calls = 1
          /\ ~Listed(r) /\ ~heap[r].spliced

----------------------------------------------------------------------------
(* When the promise of emit2 is fulfilled.                                 *)

\* Every promise among the entries of handle h has settled.
AllSettled(h) == \A p \in PromisesOf(h) : promises[p].state # "pending"

\* The rejection of an entry of handle h is thrown on by handleError.
Propagates(h) ==
    /\ handles[h].onError = "undefined"
    /\ \E p \in PromisesOf(h) : promises[p].state = "rejected"

\* C18: the promise of emit2 is fulfilled only when every promise among the
\* entries has settled and its reaction has run, so not as long as one of
\* them stays pending (while one is pending the promise of emit2 is pending
\* too, unless a rejection that is thrown on has made it fail); and once
\* they have all settled, none with a rejection that is thrown on, the
\* promise of emit2 is eventually fulfilled.
C18_FulfilsWhenAllSettled ==
    /\ [](\A h \in Handles :
            /\ handles[h].state = "fulfilled" =>
                  /\ AllSettled(h)
                  /\ PromisesOf(h) \subseteq Range(handles[h].ran)
            /\ (~AllSettled(h) /\ handles[h].state # "pending") =>
                  handles[h].state = "rejected" /\ Propagates(h))
    /\ \A h \in 1..MaxHandles :
          (h \in Handles /\ AllSettled(h) /\ ~Propagates(h))
              ~> (h \in Handles /\ handles[h].state = "fulfilled")

\* Two async listeners: the promise of emit2 was pending after the first
\* reaction and is fulfilled after the second.
C18_Witness ==
    \E h \in Handles :
        /\ handles[h].state = "fulfilled"
        /\ Cardinality(PromisesOf(h)) = 2
        /\ Len(handles[h].ran) = 2
        /\ Len(handles[h].results) = 2
        /\ \A j \in 1..2 : handles[h].results[j].k = "value"

====
